---------------------------- MODULE Spec2Model ----------------------------
(***************************************************************************)
(* Model of phraseless/certificates.py: certificates are tuples            *)
(* (name, public_key, signature); a certificate is issued by signing the   *)
(* struct-packed record '255s32s' of name and key bytes, verified by       *)
(* re-packing get_name(cert) and the key bytes, and a chain is verified    *)
(* link by link and then against a list of trusted certificates.           *)
(*                                                                         *)
(* Bytes are small naturals, 0 being the NUL byte.  The name field keeps   *)
(* its real width of 255 bytes.  Key material and signatures are opaque:   *)
(* the ed25519 primitive is ideal (a signature verifies under exactly the  *)
(* key that made it and over exactly the message that was signed).         *)
(***************************************************************************)
EXTENDS Naturals, Sequences, FiniteSets

\* ------------------------------------------------------------------ bounds
MaxTail == 2        \* longest short name, and longest tail of a long name
MaxChain == 3       \* longest chain passed to verify_certificate_chain
MaxTrusted == 2     \* longest trusted list

\* ------------------------------------------------- constants of the source
NAME_WIDTH == 255   \* the '255s' of every struct format string

NUL == 0
Bytes == {NUL, 1, 2}

\* ------------------------------------------------------ library primitives
\* struct 's' format: the bytes cut to the field width, NUL-padded on the right
pack_s(width, b) ==
    [i \in 1..width |-> IF i <= Len(b) THEN b[i] ELSE NUL]

\* ed25519 VerifyingKey(vk_s) wraps the key bytes; to_bytes() gives them back
VerifyingKey(vk_s) == [vk_s |-> vk_s]
to_bytes(vk) == vk.vk_s

\* ed25519 SigningKey number k; its verifying key has key bytes k
SigningKey(k) == [sk_s |-> k]
get_verifying_key(sk) == VerifyingKey(sk.sk_s)

\* ideal signature: records who signed what
sign(privkey, msg) == [signer |-> privkey.sk_s, msg |-> msg]

\* VerifyingKey.verify: TRUE where the library returns, FALSE where it raises
\* BadSignatureError or AssertionError
vk_verify(vk, sig, msg) == sig.signer = vk.vk_s /\ sig.msg = msg

\* base64 is a bijection between byte strings and their text form
b64encode(b) == <<"b64", b>>
b64decode(t) == t[2]

\* --------------------------------------------------------------- accessors
Min(S) == CHOOSE x \in S : \A y \in S : x <= y

\* ctypes.create_string_buffer(b).value: the bytes before the first NUL
null_terminated(b) ==
    LET nuls == {i \in 1..Len(b) : b[i] = NUL}
    IN  IF nuls = {} THEN b ELSE SubSeq(b, 1, Min(nuls) - 1)

get_name(cert) == null_terminated(cert[1])
get_public_key(cert) == cert[2]
get_signature(cert) == cert[3]

\* ------------------------------------------------------------ struct.pack
\* '255s32s': the name field followed by the 32 key bytes (kept as one value)
pack_255s32s(name, keybytes) == <<pack_s(NAME_WIDTH, name), keybytes>>

\* '255s32s64s': name field, key bytes, the 64 signature bytes
pack_255s32s64s(name, keybytes, sig) == <<pack_s(NAME_WIDTH, name), keybytes, sig>>
unpack_255s32s64s(buf) == <<buf[1], buf[2], buf[3]>>

\* ------------------------------------------------------------- operations
Return(v) == [exc |-> "", value |-> v]
Raise(e) == [exc |-> e]

create_certificate(name, pubkey, privkey) ==
    LET signature == sign(privkey, pack_255s32s(name, to_bytes(pubkey)))
    IN  <<name, pubkey, signature>>

verify_certificate(cert, ca) ==
    vk_verify(get_public_key(ca), get_signature(cert),
              pack_255s32s(get_name(cert), to_bytes(get_public_key(cert))))

\* variant: the last pair of the chain is left out
links_short(chain) ==
    IF Len(chain) > 1
    THEN [i \in 1..(Len(chain) - 2) |-> <<chain[i], chain[i + 1]>>]
    ELSE << <<chain[1], chain[1]>> >>

\* the pairs (certificate, issuer) of the chain; a lone certificate is paired
\* with itself
links(chain) ==
    IF Len(chain) > 1
    THEN [i \in 1..(Len(chain) - 1) |-> <<chain[i], chain[i + 1]>>]
    ELSE << <<chain[1], chain[1]>> >>

\* variant: an empty chain is reported as untrusted
vcc_empty_false(chain, trusted) ==
    IF Len(chain) = 0
    THEN Return(FALSE)
    ELSE Return((\A j \in DOMAIN links(chain) :
                    verify_certificate(links(chain)[j][1], links(chain)[j][2]))
                /\ (\E t \in DOMAIN trusted :
                    verify_certificate(chain[Len(chain)], trusted[t])))

\* variant: the links alone decide, the trusted list is not consulted
vcc_no_anchor(chain, trusted) ==
    IF Len(chain) = 0
    THEN Raise("IndexError")
    ELSE Return(\A j \in DOMAIN links(chain) :
                    verify_certificate(links(chain)[j][1], links(chain)[j][2]))

\* variant: the first certificate of the chain is checked against the trusted
\* list instead of the last
vcc_first_anchor(chain, trusted) ==
    IF Len(chain) = 0
    THEN Raise("IndexError")
    ELSE Return((\A j \in DOMAIN links(chain) :
                    verify_certificate(links(chain)[j][1], links(chain)[j][2]))
                /\ (\E t \in DOMAIN trusted :
                    verify_certificate(chain[1], trusted[t])))

\* variant: a trusted certificate counts only if its own signature verifies
vcc_checked_anchor(chain, trusted) ==
    IF Len(chain) = 0
    THEN Raise("IndexError")
    ELSE Return((\A j \in DOMAIN links(chain) :
                    verify_certificate(links(chain)[j][1], links(chain)[j][2]))
                /\ (\E t \in DOMAIN trusted :
                    /\ verify_certificate(trusted[t], trusted[t])
                    /\ verify_certificate(chain[Len(chain)], trusted[t])))

\* chain[0] of an empty chain raises IndexError; otherwise all(...) and any(...)
verify_certificate_chain(chain, trusted) ==
    IF Len(chain) = 0
    THEN Raise("IndexError")
    ELSE Return((\A j \in DOMAIN links(chain) :
                    verify_certificate(links(chain)[j][1], links(chain)[j][2]))
                /\ (\E t \in DOMAIN trusted :
                    verify_certificate(chain[Len(chain)], trusted[t])))

serialize_certificate(cert) ==
    b64encode(pack_255s32s64s(get_name(cert),
                              to_bytes(get_public_key(cert)),
                              get_signature(cert)))

deserialize_certificate(serialized_cert) ==
    LET cert == unpack_255s32s64s(b64decode(serialized_cert))
    IN  <<get_name(cert), VerifyingKey(get_public_key(cert)), get_signature(cert)>>

\* ------------------------------------------------------------------ inputs
Keys == {1, 2}                      \* key pairs: signing key k, verifying key k
PublicKeys == {VerifyingKey(k) : k \in Keys}
PrivateKeys == {SigningKey(k) : k \in Keys}

SeqsUpTo(S, n) == UNION {[1..m -> S] : m \in 0..n}
Fill(b, n) == [i \in 1..n |-> b]

\* names of 0..MaxTail bytes, and names of NAME_WIDTH-1 bytes 1 followed by a
\* tail of 1..MaxTail bytes: exactly NAME_WIDTH bytes long, or longer
ShortNames == SeqsUpTo(Bytes, MaxTail)
LongNames == {Fill(1, NAME_WIDTH - 1) \o t : t \in ShortNames \ {<<>>}}
Names == ShortNames \cup LongNames

\* a signature no key ever made
BadSignature == [signer |-> 0, msg |-> <<>>]

\* the certificates that differ from c in the value of exactly one field
OtherNames(c) == {<<n, c[2], c[3]>> : n \in Names \ {c[1]}}
OtherKeys(c) == {<<c[1], pk, c[3]>> : pk \in PublicKeys \ {c[2]}}
OtherSignatures(c) ==
    {<<c[1], c[2], s>> :
        s \in ({sign(sk, c[3].msg) : sk \in PrivateKeys} \cup {BadSignature}) \ {c[3]}}
OneFieldVariants(c) == OtherNames(c) \cup OtherKeys(c) \cup OtherSignatures(c)
Presented(c) == IF c = <<>> THEN {} ELSE {c} \cup OneFieldVariants(c)

\* the signing key that matches a verifying key
PrivateKeyOf(vk) == SigningKey(to_bytes(vk))
SelfSigned(c) == c[3].signer = to_bytes(c[2])

\* certificates for chains: every subject key under every issuer key with a
\* plain name, and every subject key under another key with a name that has
\* a NUL byte in it
ChainNames == {<<1>>, <<NUL, 1>>}
ChainCerts ==
    {c \in {create_certificate(n, pk, sk) :
                n \in ChainNames, pk \in PublicKeys, sk \in PrivateKeys} :
        c[1] = <<1>> \/ ~SelfSigned(c)}
Chains == SeqsUpTo(ChainCerts, MaxChain)

\* trusted certificates: per key the self-signed one, and the one with the
\* other name and a signature made by another key
Anchors == {c \in ChainCerts : SelfSigned(c) \/ c[1] # <<1>>}
TrustedLists == SeqsUpTo(Anchors, MaxTrusted)

\* ------------------------------------------------------------------- state
VARIABLES
    op,         \* the caller's position: "init", then the last operation called
    name, pubkey, privkey,  \* arguments of the last create_certificate
    cert,       \* the certificate it returned
    subject, ca,            \* arguments of the last verify_certificate
    wire,       \* the last serialize_certificate output
    decoded,    \* the last deserialize_certificate output
    chain, trusted,         \* arguments of the last verify_certificate_chain
    result      \* outcome of the last create or verify call

vars == <<op, name, pubkey, privkey, cert, subject, ca, wire, decoded,
          chain, trusted, result>>

None == <<>>
NoResult == [exc |-> "none"]

Init ==
    /\ op = "init"
    /\ name = None /\ pubkey = None /\ privkey = None /\ cert = None
    /\ subject = None /\ ca = None
    /\ wire = None /\ decoded = None
    /\ chain = <<>> /\ trusted = <<>>
    /\ result = NoResult

\* Every behaviour is one use of the module: a certificate is issued, and then
\* either presented for verification or serialized and read back; or a chain
\* is verified.
CreateCertificate ==
    /\ op = "init"
    /\ \E n \in Names, pk \in PublicKeys, sk \in PrivateKeys :
        /\ name' = n /\ pubkey' = pk /\ privkey' = sk
        /\ cert' = create_certificate(n, pk, sk)
        /\ result' = Return(create_certificate(n, pk, sk))
    /\ op' = "create_certificate"
    /\ UNCHANGED <<subject, ca, wire, decoded, chain, trusted>>

\* the issued certificate, or a one-field variant of it, is checked against an
\* issuer certificate
VerifyCertificate ==
    /\ op = "create_certificate"
    /\ \E c \in Presented(cert), a \in Anchors :
        /\ subject' = c /\ ca' = a
        /\ result' = Return(verify_certificate(c, a))
    /\ op' = "verify_certificate"
    /\ UNCHANGED <<name, pubkey, privkey, cert, wire, decoded, chain, trusted>>

SerializeCertificate ==
    /\ op = "create_certificate"
    /\ wire' = serialize_certificate(cert)
    /\ op' = "serialize_certificate"
    /\ UNCHANGED <<name, pubkey, privkey, cert, subject, ca, decoded, chain, trusted, result>>

DeserializeCertificate ==
    /\ op = "serialize_certificate"
    /\ decoded' = deserialize_certificate(wire)
    /\ op' = "deserialize_certificate"
    /\ UNCHANGED <<name, pubkey, privkey, cert, subject, ca, wire, chain, trusted, result>>

VerifyCertificateChain ==
    /\ op = "init"
    /\ \E ch \in Chains, tr \in TrustedLists :
        /\ chain' = ch /\ trusted' = tr
        /\ result' = verify_certificate_chain(ch, tr)
    /\ op' = "verify_certificate_chain"
    /\ UNCHANGED <<name, pubkey, privkey, cert, subject, ca, wire, decoded>>

Next ==
    \/ CreateCertificate
    \/ VerifyCertificate
    \/ SerializeCertificate
    \/ DeserializeCertificate
    \/ VerifyCertificateChain

Spec == Init /\ [][Next]_vars

\* ------------------------------------------------------------------ claims
IsChainCall == op = "verify_certificate_chain"
Returned(v) == result.exc = "" /\ result.value = v
Last(ch) == ch[Len(ch)]
InList(c, l) == \E t \in DOMAIN l : l[t] = c
PubKeySet(l) == {get_public_key(l[t]) : t \in DOMAIN l}

\* c is what create_certificate returns for c's name and key under the private
\* key matching issuer's public key
IssuedBy(c, issuer) ==
    c = create_certificate(c[1], c[2], PrivateKeyOf(get_public_key(issuer)))

LinksHold(ch) ==
    IF Len(ch) = 1
    THEN verify_certificate(ch[1], ch[1])
    ELSE \A i \in 1..(Len(ch) - 1) : verify_certificate(ch[i], ch[i + 1])
AnchorHolds(ch, tr) == \E t \in DOMAIN tr : verify_certificate(Last(ch), tr[t])

\* C1: for a non-empty chain, verify_certificate_chain returns true exactly
\* when every adjacent pair verifies (a lone certificate against itself) and
\* the last certificate verifies under some trusted certificate; one failing
\* link or an empty trusted list makes the result false.
C1_ChainIffLinksAndAnchor ==
    (IsChainCall /\ Len(chain) >= 1) =>
        /\ result.exc = ""
        /\ result.value <=> (LinksHold(chain) /\ AnchorHolds(chain, trusted))
        /\ (\E i \in 1..(Len(chain) - 1) : ~verify_certificate(chain[i], chain[i + 1]))
               => result.value = FALSE
        /\ trusted = <<>> => result.value = FALSE

\* a chain of three certificates is accepted
C1_Witness ==
    IsChainCall /\ Len(chain) = 3 /\ Returned(TRUE)

\* C2: a chain of two or more certificates issued successively down from a
\* trusted root, with names of at most 255 bytes, is accepted.
IssuedDownFrom(ch, tr) ==
    /\ \A i \in 1..Len(ch) : Len(ch[i][1]) <= NAME_WIDTH
    /\ \A i \in 1..(Len(ch) - 1) : IssuedBy(ch[i], ch[i + 1])
    /\ \E t \in DOMAIN tr : IssuedBy(Last(ch), tr[t])

C2_IssuedChainVerifies ==
    (IsChainCall /\ Len(chain) >= 2 /\ IssuedDownFrom(chain, trusted))
        => Returned(TRUE)

\* C3: a certificate issued for a name of at most 255 bytes verifies under any
\* ca that carries the public key matching the issuer's private key.
C3_SelfVerification ==
    (/\ op = "verify_certificate"
     /\ subject = cert
     /\ Len(name) <= NAME_WIDTH
     /\ get_public_key(ca) = get_verifying_key(privkey))
        => Returned(TRUE)

\* the name does not end in a NUL byte, so that its end can be told from the
\* padding of the name field
NoTrailingNul(n) == n = <<>> \/ n[Len(n)] # NUL

\* C4: deserializing the serialized form of a certificate issued for a name of
\* at most 255 bytes gives back the certificate, name included.  Stated for
\* the names that do not end in a NUL byte.
C4_RoundTrip ==
    (op = "deserialize_certificate" /\ Len(name) <= NAME_WIDTH /\ NoTrailingNul(name))
        => (decoded = cert /\ decoded[1] = name)

\* C5: if a certificate verifies under ca, no certificate that differs from it
\* in exactly one field verifies under ca.  Stated for the changes of a name
\* that change the 255 bytes of the name field.
C5_TamperSensitivity ==
    (/\ op = "verify_certificate"
     /\ subject \in OneFieldVariants(cert)
     /\ pack_s(NAME_WIDTH, subject[1]) = pack_s(NAME_WIDTH, cert[1]) => subject[1] = cert[1]
     /\ verify_certificate(cert, ca))
        => Returned(FALSE)

\* C6 as stated: a lone certificate R is accepted exactly when it is
\* self-signed and a member of the trusted list.
C6_MemberOfTrusted ==
    (IsChainCall /\ Len(chain) = 1) =>
        Returned(verify_certificate(chain[1], chain[1]) /\ InList(chain[1], trusted))

\* C6 as amended: a lone certificate R is accepted exactly when it is
\* self-signed and some trusted certificate carries R's public key; so it is
\* accepted when it is self-signed and a member of the trusted list, and
\* rejected when it is not self-signed or no trusted certificate has its key.
C6_KeyInTrusted ==
    (IsChainCall /\ Len(chain) = 1) =>
        /\ Returned(/\ verify_certificate(chain[1], chain[1])
                    /\ get_public_key(chain[1]) \in PubKeySet(trusted))
        /\ (verify_certificate(chain[1], chain[1]) /\ InList(chain[1], trusted))
               => Returned(TRUE)

\* a self-signed lone certificate is accepted although it is not in the list
C6_Witness ==
    /\ IsChainCall /\ Len(chain) = 1
    /\ verify_certificate(chain[1], chain[1])
    /\ ~InList(chain[1], trusted)
    /\ Returned(TRUE)

\* the chain is [L, I] and the link L -> I is valid
ValidPair ==
    IsChainCall /\ Len(chain) = 2 /\ verify_certificate(chain[1], chain[2])

\* R is a self-signed root other than I, and it issued I
RootOf(R, I) == verify_certificate(R, R) /\ R # I /\ IssuedBy(I, R)

\* C7 as stated: [L, I] with a valid link and I issued by root R is rejected
\* when R is not in the trusted list.
C7_RootNotInTrusted ==
    ValidPair =>
        \A R \in ChainCerts :
            (RootOf(R, chain[2]) /\ ~InList(R, trusted)) => Returned(FALSE)

\* C7 as amended: [L, I] with a valid link and I issued by root R is rejected
\* when no trusted certificate carries R's public key.
C7_RootKeyNotInTrusted ==
    ValidPair =>
        \A R \in ChainCerts :
            (RootOf(R, chain[2]) /\ get_public_key(R) \notin PubKeySet(trusted))
                => Returned(FALSE)

\* a valid [L, I] is rejected by a non-empty trusted list without the root key
C7_Witness ==
    /\ ValidPair
    /\ trusted # <<>>
    /\ Returned(FALSE)
    /\ \E R \in ChainCerts :
        RootOf(R, chain[2]) /\ get_public_key(R) \notin PubKeySet(trusted)

\* C8: verifying an empty chain ends in an error, never in true or false,
\* whatever the trusted list.
C8_EmptyChainRaises ==
    (IsChainCall /\ chain = <<>>) => (result.exc # "" /\ result.exc # "none")

\* an empty chain was verified against a non-empty trusted list
C8_Witness ==
    IsChainCall /\ chain = <<>> /\ trusted # <<>> /\ result.exc = "IndexError"

\* C9: create_certificate with a name of more than 255 bytes fails; it returns
\* no certificate.
C9_OverLengthNameFails ==
    (op = "create_certificate" /\ Len(name) > NAME_WIDTH) => result.exc # ""

\* the certificate that carries key pk and nothing else: the empty name and a
\* signature no key made
KeyCarrier(pk) == <<<<>>, pk, BadSignature>>

\* the key carriers of a set of key bytes, in increasing order of the keys
RECURSIVE KeyCarriers(_)
KeyCarriers(ks) ==
    IF ks = {}
    THEN <<>>
    ELSE <<KeyCarrier(VerifyingKey(Min(ks)))>> \o KeyCarriers(ks \ {Min(ks)})

\* C10: the result depends on the trusted list only through its set of public
\* keys: it is the result for the list of the key carriers of that set.  Two
\* trusted lists with the same set of public keys have the same key carriers
\* and so the same result; names, signatures, order and repetition of the
\* trusted certificates do not matter.
C10_OnlyAnchorKeysMatter ==
    IsChainCall =>
        verify_certificate_chain(
            chain, KeyCarriers({to_bytes(pk) : pk \in PubKeySet(trusted)})) = result

\* a chain is accepted under two trusted certificates that share a key and
\* differ in name and signature, one of them not self-signed
C10_Witness ==
    /\ IsChainCall /\ Returned(TRUE)
    /\ Len(trusted) = 2
    /\ trusted[1] # trusted[2]
    /\ get_public_key(trusted[1]) = get_public_key(trusted[2])
    /\ ~verify_certificate(trusted[2], trusted[2])

=============================================================================
